---- MODULE Spec2Model ----
(***************************************************************************)
(* Model of app.py: the turn-processing graph, get_symptom -> classify ->  *)
(* (general | emergency | mental_health_conversation) -> END, run on the   *)
(* AgentState, and the Streamlit script that appends the user's message,   *)
(* invokes the graph and stores the result.                                *)
(*                                                                         *)
(* Streamlit runs the script once for every text the user submits.  A text *)
(* submitted while a script run of the session is still going tells that   *)
(* run to stop and starts a new run at once, in a thread of its own; the   *)
(* old run goes on until it next calls a Streamlit command, and stops      *)
(* there.  No Streamlit command is called inside graph.invoke, so the      *)
(* graph runs of several script runs of one session can be going at the    *)
(* same time, all appending to the one list of the session.                *)
(*                                                                         *)
(* Text (a Python str) is a sequence of characters, and a character is its *)
(* Unicode code point, a number in 0..1114111, so that strip(), lower(),   *)
(* replace() and the substring test `in` are computed character by         *)
(* character as Python computes them, on every character a str can hold.   *)
(***************************************************************************)
EXTENDS Integers, Sequences, FiniteSets, TLC

VARIABLES
    messages,             \* the list object st.session_state.messages; passed by
                          \* reference as state['chat_history'] (app.py:205), so the
                          \* nodes' in-place appends are appends to this very list
    prompt,               \* per script run: the text st.chat_input returned to it
    pc,                   \* per script run: where the run is
    symptom,              \* per script run: state['symptom']
    category,             \* per script run: state['category']
    persona,              \* per script run: the parts of mental_health_node's prompt
                          \* read from the list so far
    ai_response_message,  \* per script run: app.py:214
    prior,                \* per script run: the transcript passed into its graph
                          \* run, as the graph's entry node found it
    calls,                \* per script run: log of its llm.invoke calls
    trace,                \* per script run: names of the graph nodes it has run
    by,                   \* for every message of the list, the script run that
                          \* appended it (0: the session's first run, app.py:186)
    turns,                \* number of texts submitted in this session
    hist,                 \* per script run: what it has received so far, in order
    parked,               \* the state of the other session while this one runs
    current               \* which of the two sessions is running

vars ==
    <<messages, prompt, pc, symptom, category, persona, ai_response_message, prior,
      calls, trace, by, turns, hist, parked, current>>

\* Number of texts submitted in one session.
MaxTurns == 2

\* Longest transcript handed directly to graph.invoke.
MaxLen == 2

\* Number of texts submitted in two concurrent sessions together.
MaxTotalTurns == 2

(***************************************************************************)
(* String literals of app.py.  The comment above each gives its text.      *)
(***************************************************************************)
\* "Hello! I'm Aura. I'm here to listen. How are you feeling today?"
Greeting ==
    <<72, 101, 108, 108, 111, 33, 32, 73, 39, 109, 32, 65, 117, 114, 97, 46,
      32, 73, 39, 109, 32, 104, 101, 114, 101, 32, 116, 111, 32, 108, 105, 115,
      116, 101, 110, 46, 32, 72, 111, 119, 32, 97, 114, 101, 32, 121, 111, 117,
      32, 102, 101, 101, 108, 105, 110, 103, 32, 116, 111, 100, 97, 121, 63>>

\* "(Thinking... It seems like this might be a "
ThinkingPrefix ==
    <<40, 84, 104, 105, 110, 107, 105, 110, 103, 46, 46, 46, 32, 73, 116, 32,
      115, 101, 101, 109, 115, 32, 108, 105, 107, 101, 32, 116, 104, 105, 115, 32,
      109, 105, 103, 104, 116, 32, 98, 101, 32, 97, 32>>

\* " concern.)"
ThinkingSuffix ==
    <<32, 99, 111, 110, 99, 101, 114, 110, 46, 41>>

\* "Based on what you've told me about '"
GeneralPrefix ==
    <<66, 97, 115, 101, 100, 32, 111, 110, 32, 119, 104, 97, 116, 32, 121, 111,
      117, 39, 118, 101, 32, 116, 111, 108, 100, 32, 109, 101, 32, 97, 98, 111,
      117, 116, 32, 39>>

\* "', this seems like a general health question. I'm an AI assistant and not a
\*  medical professional. For any health concerns, it's always best to consult 
\* with a doctor or a qualified healthcare provider. They can give you accurate
\*  advice."
GeneralSuffix ==
    <<39, 44, 32, 116, 104, 105, 115, 32, 115, 101, 101, 109, 115, 32, 108, 105,
      107, 101, 32, 97, 32, 103, 101, 110, 101, 114, 97, 108, 32, 104, 101, 97,
      108, 116, 104, 32, 113, 117, 101, 115, 116, 105, 111, 110, 46, 32, 73, 39,
      109, 32, 97, 110, 32, 65, 73, 32, 97, 115, 115, 105, 115, 116, 97, 110,
      116, 32, 97, 110, 100, 32, 110, 111, 116, 32, 97, 32, 109, 101, 100, 105,
      99, 97, 108, 32, 112, 114, 111, 102, 101, 115, 115, 105, 111, 110, 97, 108,
      46, 32, 70, 111, 114, 32, 97, 110, 121, 32, 104, 101, 97, 108, 116, 104,
      32, 99, 111, 110, 99, 101, 114, 110, 115, 44, 32, 105, 116, 39, 115, 32,
      97, 108, 119, 97, 121, 115, 32, 98, 101, 115, 116, 32, 116, 111, 32, 99,
      111, 110, 115, 117, 108, 116, 32, 119, 105, 116, 104, 32, 97, 32, 100, 111,
      99, 116, 111, 114, 32, 111, 114, 32, 97, 32, 113, 117, 97, 108, 105, 102,
      105, 101, 100, 32, 104, 101, 97, 108, 116, 104, 99, 97, 114, 101, 32, 112,
      114, 111, 118, 105, 100, 101, 114, 46, 32, 84, 104, 101, 121, 32, 99, 97,
      110, 32, 103, 105, 118, 101, 32, 121, 111, 117, 32, 97, 99, 99, 117, 114,
      97, 116, 101, 32, 97, 100, 118, 105, 99, 101, 46>>

\* "Based on what you've described as '"
EmergencyPrefix ==
    <<66, 97, 115, 101, 100, 32, 111, 110, 32, 119, 104, 97, 116, 32, 121, 111,
      117, 39, 118, 101, 32, 100, 101, 115, 99, 114, 105, 98, 101, 100, 32, 97,
      115, 32, 39>>

\* "', this could be a medical emergency. Please do not wait. Contact your 
\* local emergency services immediately (like calling 911 in the US, 112 in 
\* Europe, or 108 in India) or go to the nearest emergency room. Your health is
\*  the top priority, and getting immediate help is crucial."
EmergencySuffix ==
    <<39, 44, 32, 116, 104, 105, 115, 32, 99, 111, 117, 108, 100, 32, 98, 101,
      32, 97, 32, 109, 101, 100, 105, 99, 97, 108, 32, 101, 109, 101, 114, 103,
      101, 110, 99, 121, 46, 32, 80, 108, 101, 97, 115, 101, 32, 100, 111, 32,
      110, 111, 116, 32, 119, 97, 105, 116, 46, 32, 67, 111, 110, 116, 97, 99,
      116, 32, 121, 111, 117, 114, 32, 108, 111, 99, 97, 108, 32, 101, 109, 101,
      114, 103, 101, 110, 99, 121, 32, 115, 101, 114, 118, 105, 99, 101, 115, 32,
      105, 109, 109, 101, 100, 105, 97, 116, 101, 108, 121, 32, 40, 108, 105, 107,
      101, 32, 99, 97, 108, 108, 105, 110, 103, 32, 57, 49, 49, 32, 105, 110,
      32, 116, 104, 101, 32, 85, 83, 44, 32, 49, 49, 50, 32, 105, 110, 32,
      69, 117, 114, 111, 112, 101, 44, 32, 111, 114, 32, 49, 48, 56, 32, 105,
      110, 32, 73, 110, 100, 105, 97, 41, 32, 111, 114, 32, 103, 111, 32, 116,
      111, 32, 116, 104, 101, 32, 110, 101, 97, 114, 101, 115, 116, 32, 101, 109,
      101, 114, 103, 101, 110, 99, 121, 32, 114, 111, 111, 109, 46, 32, 89, 111,
      117, 114, 32, 104, 101, 97, 108, 116, 104, 32, 105, 115, 32, 116, 104, 101,
      32, 116, 111, 112, 32, 112, 114, 105, 111, 114, 105, 116, 121, 44, 32, 97,
      110, 100, 32, 103, 101, 116, 116, 105, 110, 103, 32, 105, 109, 109, 101, 100,
      105, 97, 116, 101, 32, 104, 101, 108, 112, 32, 105, 115, 32, 99, 114, 117,
      99, 105, 97, 108, 46>>

\* "general"
general ==
    <<103, 101, 110, 101, 114, 97, 108>>

\* "emergency"
emergency ==
    <<101, 109, 101, 114, 103, 101, 110, 99, 121>>

\* "mental"
mental ==
    <<109, 101, 110, 116, 97, 108>>

\* "mental_health"
mental_health ==
    <<109, 101, 110, 116, 97, 108, 95, 104, 101, 97, 108, 116, 104>>


(***************************************************************************)
(* Bounded inputs: what the user types and what the model service returns. *)
(***************************************************************************)
\* "I have a fever"
UFever ==
    <<73, 32, 104, 97, 118, 101, 32, 97, 32, 102, 101, 118, 101, 114>>

\* "I feel sad"
USad ==
    <<73, 32, 102, 101, 101, 108, 32, 115, 97, 100>>

\* "General"
RGeneral ==
    <<71, 101, 110, 101, 114, 97, 108>>

\* "Emergency"
REmergency ==
    <<69, 109, 101, 114, 103, 101, 110, 99, 121>>

\* "Mental Health"
RMentalHealth ==
    <<77, 101, 110, 116, 97, 108, 32, 72, 101, 97, 108, 116, 104>>

\* " emergency\n"
REmergencyPadded ==
    <<32, 101, 109, 101, 114, 103, 101, 110, 99, 121, 10>>

\* "Emergency, not General"
REmergencyNotGeneral ==
    <<69, 109, 101, 114, 103, 101, 110, 99, 121, 44, 32, 110, 111, 116, 32, 71,
      101, 110, 101, 114, 97, 108>>

\* "MENTAL emergency"
RMentalEmergency ==
    <<77, 69, 78, 84, 65, 76, 32, 101, 109, 101, 114, 103, 101, 110, 99, 121>>

\* "I'm not sure"
RNotSure ==
    <<73, 39, 109, 32, 110, 111, 116, 32, 115, 117, 114, 101>>

\* "It sounds like a lot."
PSoundsLike ==
    <<73, 116, 32, 115, 111, 117, 110, 100, 115, 32, 108, 105, 107, 101, 32, 97,
      32, 108, 111, 116, 46>>

\* " Ok \n"
PPadded ==
    <<32, 79, 107, 32, 10>>

(***************************************************************************)
(* Python str operations.  The tables are those of the Unicode database of *)
(* the interpreter (unicodedata.unidata_version 14.0.0).                   *)
(***************************************************************************)
\* The characters for which str.isspace() holds.
Whitespace ==
    {9, 10, 11, 12, 13, 28, 29, 30, 31, 32, 133, 160, 5760, 8192, 8193, 8194,
     8195, 8196, 8197, 8198, 8199, 8200, 8201, 8202, 8232, 8233, 8239, 8287,
     12288}

RECURSIVE LStrip(_)
LStrip(s) == IF s # <<>> /\ Head(s) \in Whitespace THEN LStrip(Tail(s)) ELSE s

RECURSIVE RStrip(_)
RStrip(s) ==
    IF s # <<>> /\ s[Len(s)] \in Whitespace THEN RStrip(SubSeq(s, 1, Len(s) - 1)) ELSE s

\* str.strip()
Strip(s) == RStrip(LStrip(s))

\* The lower-case mapping of the characters that have one which is a single
\* other character.  A row <<first, last, step, delta>> says that each of
\* first, first + step, .., last maps to itself + delta.
LowerRows ==
    {<<65, 90, 1, 32>>, <<192, 214, 1, 32>>, <<216, 222, 1, 32>>, <<256, 302, 2, 1>>,
     <<306, 310, 2, 1>>, <<313, 327, 2, 1>>, <<330, 374, 2, 1>>, <<376, 376, 1, -121>>,
     <<377, 381, 2, 1>>, <<385, 385, 1, 210>>, <<386, 388, 2, 1>>, <<390, 390, 1, 206>>,
     <<391, 391, 1, 1>>, <<393, 394, 1, 205>>, <<395, 395, 1, 1>>, <<398, 398, 1, 79>>,
     <<399, 399, 1, 202>>, <<400, 400, 1, 203>>, <<401, 401, 1, 1>>, <<403, 403, 1, 205>>,
     <<404, 404, 1, 207>>, <<406, 406, 1, 211>>, <<407, 407, 1, 209>>, <<408, 408, 1, 1>>,
     <<412, 412, 1, 211>>, <<413, 413, 1, 213>>, <<415, 415, 1, 214>>, <<416, 420, 2, 1>>,
     <<422, 422, 1, 218>>, <<423, 423, 1, 1>>, <<425, 425, 1, 218>>, <<428, 428, 1, 1>>,
     <<430, 430, 1, 218>>, <<431, 431, 1, 1>>, <<433, 434, 1, 217>>, <<435, 437, 2, 1>>,
     <<439, 439, 1, 219>>, <<440, 440, 1, 1>>, <<444, 444, 1, 1>>, <<452, 452, 1, 2>>,
     <<453, 453, 1, 1>>, <<455, 455, 1, 2>>, <<456, 456, 1, 1>>, <<458, 458, 1, 2>>,
     <<459, 475, 2, 1>>, <<478, 494, 2, 1>>, <<497, 497, 1, 2>>, <<498, 500, 2, 1>>,
     <<502, 502, 1, -97>>, <<503, 503, 1, -56>>, <<504, 542, 2, 1>>, <<544, 544, 1, -130>>,
     <<546, 562, 2, 1>>, <<570, 570, 1, 10795>>, <<571, 571, 1, 1>>, <<573, 573, 1, -163>>,
     <<574, 574, 1, 10792>>, <<577, 577, 1, 1>>, <<579, 579, 1, -195>>, <<580, 580, 1, 69>>,
     <<581, 581, 1, 71>>, <<582, 590, 2, 1>>, <<880, 882, 2, 1>>, <<886, 886, 1, 1>>,
     <<895, 895, 1, 116>>, <<902, 902, 1, 38>>, <<904, 906, 1, 37>>, <<908, 908, 1, 64>>,
     <<910, 911, 1, 63>>, <<913, 929, 1, 32>>, <<931, 939, 1, 32>>, <<975, 975, 1, 8>>,
     <<984, 1006, 2, 1>>, <<1012, 1012, 1, -60>>, <<1015, 1015, 1, 1>>, <<1017, 1017, 1, -7>>,
     <<1018, 1018, 1, 1>>, <<1021, 1023, 1, -130>>, <<1024, 1039, 1, 80>>, <<1040, 1071, 1, 32>>,
     <<1120, 1152, 2, 1>>, <<1162, 1214, 2, 1>>, <<1216, 1216, 1, 15>>, <<1217, 1229, 2, 1>>,
     <<1232, 1326, 2, 1>>, <<1329, 1366, 1, 48>>, <<4256, 4293, 1, 7264>>, <<4295, 4295, 1, 7264>>,
     <<4301, 4301, 1, 7264>>, <<5024, 5103, 1, 38864>>, <<5104, 5109, 1, 8>>, <<7312, 7354, 1, -3008>>,
     <<7357, 7359, 1, -3008>>, <<7680, 7828, 2, 1>>, <<7838, 7838, 1, -7615>>, <<7840, 7934, 2, 1>>,
     <<7944, 7951, 1, -8>>, <<7960, 7965, 1, -8>>, <<7976, 7983, 1, -8>>, <<7992, 7999, 1, -8>>,
     <<8008, 8013, 1, -8>>, <<8025, 8031, 2, -8>>, <<8040, 8047, 1, -8>>, <<8072, 8079, 1, -8>>,
     <<8088, 8095, 1, -8>>, <<8104, 8111, 1, -8>>, <<8120, 8121, 1, -8>>, <<8122, 8123, 1, -74>>,
     <<8124, 8124, 1, -9>>, <<8136, 8139, 1, -86>>, <<8140, 8140, 1, -9>>, <<8152, 8153, 1, -8>>,
     <<8154, 8155, 1, -100>>, <<8168, 8169, 1, -8>>, <<8170, 8171, 1, -112>>, <<8172, 8172, 1, -7>>,
     <<8184, 8185, 1, -128>>, <<8186, 8187, 1, -126>>, <<8188, 8188, 1, -9>>, <<8486, 8486, 1, -7517>>,
     <<8490, 8490, 1, -8383>>, <<8491, 8491, 1, -8262>>, <<8498, 8498, 1, 28>>, <<8544, 8559, 1, 16>>,
     <<8579, 8579, 1, 1>>, <<9398, 9423, 1, 26>>, <<11264, 11311, 1, 48>>, <<11360, 11360, 1, 1>>,
     <<11362, 11362, 1, -10743>>, <<11363, 11363, 1, -3814>>, <<11364, 11364, 1, -10727>>, <<11367, 11371, 2, 1>>,
     <<11373, 11373, 1, -10780>>, <<11374, 11374, 1, -10749>>, <<11375, 11375, 1, -10783>>, <<11376, 11376, 1, -10782>>,
     <<11378, 11378, 1, 1>>, <<11381, 11381, 1, 1>>, <<11390, 11391, 1, -10815>>, <<11392, 11490, 2, 1>>,
     <<11499, 11501, 2, 1>>, <<11506, 11506, 1, 1>>, <<42560, 42604, 2, 1>>, <<42624, 42650, 2, 1>>,
     <<42786, 42798, 2, 1>>, <<42802, 42862, 2, 1>>, <<42873, 42875, 2, 1>>, <<42877, 42877, 1, -35332>>,
     <<42878, 42886, 2, 1>>, <<42891, 42891, 1, 1>>, <<42893, 42893, 1, -42280>>, <<42896, 42898, 2, 1>>,
     <<42902, 42920, 2, 1>>, <<42922, 42922, 1, -42308>>, <<42923, 42923, 1, -42319>>, <<42924, 42924, 1, -42315>>,
     <<42925, 42925, 1, -42305>>, <<42926, 42926, 1, -42308>>, <<42928, 42928, 1, -42258>>, <<42929, 42929, 1, -42282>>,
     <<42930, 42930, 1, -42261>>, <<42931, 42931, 1, 928>>, <<42932, 42946, 2, 1>>, <<42948, 42948, 1, -48>>,
     <<42949, 42949, 1, -42307>>, <<42950, 42950, 1, -35384>>, <<42951, 42953, 2, 1>>, <<42960, 42960, 1, 1>>,
     <<42966, 42968, 2, 1>>, <<42997, 42997, 1, 1>>, <<65313, 65338, 1, 32>>, <<66560, 66599, 1, 40>>,
     <<66736, 66771, 1, 40>>, <<66928, 66938, 1, 39>>, <<66940, 66954, 1, 39>>, <<66956, 66962, 1, 39>>,
     <<66964, 66965, 1, 39>>, <<68736, 68786, 1, 64>>, <<71840, 71871, 1, 32>>, <<93760, 93791, 1, 32>>,
     <<125184, 125217, 1, 34>>}

\* The characters of LowerRows.
UpperCase ==
    UNION {{r[1] + k * r[3] : k \in 0..((r[2] - r[1]) \div r[3])} : r \in LowerRows}

\* Their images.
LowerCase ==
    [c \in UpperCase |->
        c + (CHOOSE r \in LowerRows :
                r[1] <= c /\ c <= r[2] /\ (c - r[1]) % r[3] = 0)[4]]

\* str.lower() of a one-character string.  U+0130 is the one character whose
\* lower case is two characters.
LowerChar(c) ==
    IF c = 304 THEN <<105, 775>>
    ELSE IF c \in UpperCase THEN <<LowerCase[c]>>
    ELSE <<c>>

\* Ranges <<first, last>> of the characters that are cased and not
\* case-ignorable.
Cased ==
    {<<65, 90>>, <<97, 122>>, <<170, 170>>, <<181, 181>>, <<186, 186>>,
     <<192, 214>>, <<216, 246>>, <<248, 442>>, <<444, 447>>, <<452, 659>>,
     <<661, 687>>, <<880, 883>>, <<886, 887>>, <<891, 893>>, <<895, 895>>,
     <<902, 902>>, <<904, 906>>, <<908, 908>>, <<910, 929>>, <<931, 1013>>,
     <<1015, 1153>>, <<1162, 1327>>, <<1329, 1366>>, <<1376, 1416>>, <<4256, 4293>>,
     <<4295, 4295>>, <<4301, 4301>>, <<4304, 4346>>, <<4349, 4351>>, <<5024, 5109>>,
     <<5112, 5117>>, <<7296, 7304>>, <<7312, 7354>>, <<7357, 7359>>, <<7424, 7467>>,
     <<7531, 7543>>, <<7545, 7578>>, <<7680, 7957>>, <<7960, 7965>>, <<7968, 8005>>,
     <<8008, 8013>>, <<8016, 8023>>, <<8025, 8025>>, <<8027, 8027>>, <<8029, 8029>>,
     <<8031, 8061>>, <<8064, 8116>>, <<8118, 8124>>, <<8126, 8126>>, <<8130, 8132>>,
     <<8134, 8140>>, <<8144, 8147>>, <<8150, 8155>>, <<8160, 8172>>, <<8178, 8180>>,
     <<8182, 8188>>, <<8450, 8450>>, <<8455, 8455>>, <<8458, 8467>>, <<8469, 8469>>,
     <<8473, 8477>>, <<8484, 8484>>, <<8486, 8486>>, <<8488, 8488>>, <<8490, 8493>>,
     <<8495, 8500>>, <<8505, 8505>>, <<8508, 8511>>, <<8517, 8521>>, <<8526, 8526>>,
     <<8544, 8575>>, <<8579, 8580>>, <<9398, 9449>>, <<11264, 11387>>, <<11390, 11492>>,
     <<11499, 11502>>, <<11506, 11507>>, <<11520, 11557>>, <<11559, 11559>>, <<11565, 11565>>,
     <<42560, 42605>>, <<42624, 42651>>, <<42786, 42863>>, <<42865, 42887>>, <<42891, 42894>>,
     <<42896, 42954>>, <<42960, 42961>>, <<42963, 42963>>, <<42965, 42969>>, <<42997, 42998>>,
     <<43002, 43002>>, <<43824, 43866>>, <<43872, 43880>>, <<43888, 43967>>, <<64256, 64262>>,
     <<64275, 64279>>, <<65313, 65338>>, <<65345, 65370>>, <<66560, 66639>>, <<66736, 66771>>,
     <<66776, 66811>>, <<66928, 66938>>, <<66940, 66954>>, <<66956, 66962>>, <<66964, 66965>>,
     <<66967, 66977>>, <<66979, 66993>>, <<66995, 67001>>, <<67003, 67004>>, <<68736, 68786>>,
     <<68800, 68850>>, <<71840, 71903>>, <<93760, 93823>>, <<119808, 119892>>, <<119894, 119964>>,
     <<119966, 119967>>, <<119970, 119970>>, <<119973, 119974>>, <<119977, 119980>>, <<119982, 119993>>,
     <<119995, 119995>>, <<119997, 120003>>, <<120005, 120069>>, <<120071, 120074>>, <<120077, 120084>>,
     <<120086, 120092>>, <<120094, 120121>>, <<120123, 120126>>, <<120128, 120132>>, <<120134, 120134>>,
     <<120138, 120144>>, <<120146, 120485>>, <<120488, 120512>>, <<120514, 120538>>, <<120540, 120570>>,
     <<120572, 120596>>, <<120598, 120628>>, <<120630, 120654>>, <<120656, 120686>>, <<120688, 120712>>,
     <<120714, 120744>>, <<120746, 120770>>, <<120772, 120779>>, <<122624, 122633>>, <<122635, 122654>>,
     <<125184, 125251>>, <<127280, 127305>>, <<127312, 127337>>, <<127344, 127369>>}

\* Ranges <<first, last>> of the case-ignorable characters.
CaseIgnorable ==
    {<<39, 39>>, <<46, 46>>, <<58, 58>>, <<94, 94>>, <<96, 96>>,
     <<168, 168>>, <<173, 173>>, <<175, 175>>, <<180, 180>>, <<183, 184>>,
     <<688, 879>>, <<884, 885>>, <<890, 890>>, <<900, 901>>, <<903, 903>>,
     <<1155, 1161>>, <<1369, 1369>>, <<1375, 1375>>, <<1425, 1469>>, <<1471, 1471>>,
     <<1473, 1474>>, <<1476, 1477>>, <<1479, 1479>>, <<1524, 1524>>, <<1536, 1541>>,
     <<1552, 1562>>, <<1564, 1564>>, <<1600, 1600>>, <<1611, 1631>>, <<1648, 1648>>,
     <<1750, 1757>>, <<1759, 1768>>, <<1770, 1773>>, <<1807, 1807>>, <<1809, 1809>>,
     <<1840, 1866>>, <<1958, 1968>>, <<2027, 2037>>, <<2042, 2042>>, <<2045, 2045>>,
     <<2070, 2093>>, <<2137, 2139>>, <<2184, 2184>>, <<2192, 2193>>, <<2200, 2207>>,
     <<2249, 2306>>, <<2362, 2362>>, <<2364, 2364>>, <<2369, 2376>>, <<2381, 2381>>,
     <<2385, 2391>>, <<2402, 2403>>, <<2417, 2417>>, <<2433, 2433>>, <<2492, 2492>>,
     <<2497, 2500>>, <<2509, 2509>>, <<2530, 2531>>, <<2558, 2558>>, <<2561, 2562>>,
     <<2620, 2620>>, <<2625, 2626>>, <<2631, 2632>>, <<2635, 2637>>, <<2641, 2641>>,
     <<2672, 2673>>, <<2677, 2677>>, <<2689, 2690>>, <<2748, 2748>>, <<2753, 2757>>,
     <<2759, 2760>>, <<2765, 2765>>, <<2786, 2787>>, <<2810, 2815>>, <<2817, 2817>>,
     <<2876, 2876>>, <<2879, 2879>>, <<2881, 2884>>, <<2893, 2893>>, <<2901, 2902>>,
     <<2914, 2915>>, <<2946, 2946>>, <<3008, 3008>>, <<3021, 3021>>, <<3072, 3072>>,
     <<3076, 3076>>, <<3132, 3132>>, <<3134, 3136>>, <<3142, 3144>>, <<3146, 3149>>,
     <<3157, 3158>>, <<3170, 3171>>, <<3201, 3201>>, <<3260, 3260>>, <<3263, 3263>>,
     <<3270, 3270>>, <<3276, 3277>>, <<3298, 3299>>, <<3328, 3329>>, <<3387, 3388>>,
     <<3393, 3396>>, <<3405, 3405>>, <<3426, 3427>>, <<3457, 3457>>, <<3530, 3530>>,
     <<3538, 3540>>, <<3542, 3542>>, <<3633, 3633>>, <<3636, 3642>>, <<3654, 3662>>,
     <<3761, 3761>>, <<3764, 3772>>, <<3782, 3782>>, <<3784, 3789>>, <<3864, 3865>>,
     <<3893, 3893>>, <<3895, 3895>>, <<3897, 3897>>, <<3953, 3966>>, <<3968, 3972>>,
     <<3974, 3975>>, <<3981, 3991>>, <<3993, 4028>>, <<4038, 4038>>, <<4141, 4144>>,
     <<4146, 4151>>, <<4153, 4154>>, <<4157, 4158>>, <<4184, 4185>>, <<4190, 4192>>,
     <<4209, 4212>>, <<4226, 4226>>, <<4229, 4230>>, <<4237, 4237>>, <<4253, 4253>>,
     <<4348, 4348>>, <<4957, 4959>>, <<5906, 5908>>, <<5938, 5939>>, <<5970, 5971>>,
     <<6002, 6003>>, <<6068, 6069>>, <<6071, 6077>>, <<6086, 6086>>, <<6089, 6099>>,
     <<6103, 6103>>, <<6109, 6109>>, <<6155, 6159>>, <<6211, 6211>>, <<6277, 6278>>,
     <<6313, 6313>>, <<6432, 6434>>, <<6439, 6440>>, <<6450, 6450>>, <<6457, 6459>>,
     <<6679, 6680>>, <<6683, 6683>>, <<6742, 6742>>, <<6744, 6750>>, <<6752, 6752>>,
     <<6754, 6754>>, <<6757, 6764>>, <<6771, 6780>>, <<6783, 6783>>, <<6823, 6823>>,
     <<6832, 6862>>, <<6912, 6915>>, <<6964, 6964>>, <<6966, 6970>>, <<6972, 6972>>,
     <<6978, 6978>>, <<7019, 7027>>, <<7040, 7041>>, <<7074, 7077>>, <<7080, 7081>>,
     <<7083, 7085>>, <<7142, 7142>>, <<7144, 7145>>, <<7149, 7149>>, <<7151, 7153>>,
     <<7212, 7219>>, <<7222, 7223>>, <<7288, 7293>>, <<7376, 7378>>, <<7380, 7392>>,
     <<7394, 7400>>, <<7405, 7405>>, <<7412, 7412>>, <<7416, 7417>>, <<7468, 7530>>,
     <<7544, 7544>>, <<7579, 7679>>, <<8125, 8125>>, <<8127, 8129>>, <<8141, 8143>>,
     <<8157, 8159>>, <<8173, 8175>>, <<8189, 8190>>, <<8203, 8207>>, <<8216, 8217>>,
     <<8228, 8228>>, <<8231, 8231>>, <<8234, 8238>>, <<8288, 8292>>, <<8294, 8303>>,
     <<8305, 8305>>, <<8319, 8319>>, <<8336, 8348>>, <<8400, 8432>>, <<11388, 11389>>,
     <<11503, 11505>>, <<11631, 11631>>, <<11647, 11647>>, <<11744, 11775>>, <<11823, 11823>>,
     <<12293, 12293>>, <<12330, 12333>>, <<12337, 12341>>, <<12347, 12347>>, <<12441, 12446>>,
     <<12540, 12542>>, <<40981, 40981>>, <<42232, 42237>>, <<42508, 42508>>, <<42607, 42610>>,
     <<42612, 42621>>, <<42623, 42623>>, <<42652, 42655>>, <<42736, 42737>>, <<42752, 42785>>,
     <<42864, 42864>>, <<42888, 42890>>, <<42994, 42996>>, <<43000, 43001>>, <<43010, 43010>>,
     <<43014, 43014>>, <<43019, 43019>>, <<43045, 43046>>, <<43052, 43052>>, <<43204, 43205>>,
     <<43232, 43249>>, <<43263, 43263>>, <<43302, 43309>>, <<43335, 43345>>, <<43392, 43394>>,
     <<43443, 43443>>, <<43446, 43449>>, <<43452, 43453>>, <<43471, 43471>>, <<43493, 43494>>,
     <<43561, 43566>>, <<43569, 43570>>, <<43573, 43574>>, <<43587, 43587>>, <<43596, 43596>>,
     <<43632, 43632>>, <<43644, 43644>>, <<43696, 43696>>, <<43698, 43700>>, <<43703, 43704>>,
     <<43710, 43711>>, <<43713, 43713>>, <<43741, 43741>>, <<43756, 43757>>, <<43763, 43764>>,
     <<43766, 43766>>, <<43867, 43871>>, <<43881, 43883>>, <<44005, 44005>>, <<44008, 44008>>,
     <<44013, 44013>>, <<64286, 64286>>, <<64434, 64450>>, <<65024, 65039>>, <<65043, 65043>>,
     <<65056, 65071>>, <<65106, 65106>>, <<65109, 65109>>, <<65279, 65279>>, <<65287, 65287>>,
     <<65294, 65294>>, <<65306, 65306>>, <<65342, 65342>>, <<65344, 65344>>, <<65392, 65392>>,
     <<65438, 65439>>, <<65507, 65507>>, <<65529, 65531>>, <<66045, 66045>>, <<66272, 66272>>,
     <<66422, 66426>>, <<67456, 67461>>, <<67463, 67504>>, <<67506, 67514>>, <<68097, 68099>>,
     <<68101, 68102>>, <<68108, 68111>>, <<68152, 68154>>, <<68159, 68159>>, <<68325, 68326>>,
     <<68900, 68903>>, <<69291, 69292>>, <<69446, 69456>>, <<69506, 69509>>, <<69633, 69633>>,
     <<69688, 69702>>, <<69744, 69744>>, <<69747, 69748>>, <<69759, 69761>>, <<69811, 69814>>,
     <<69817, 69818>>, <<69821, 69821>>, <<69826, 69826>>, <<69837, 69837>>, <<69888, 69890>>,
     <<69927, 69931>>, <<69933, 69940>>, <<70003, 70003>>, <<70016, 70017>>, <<70070, 70078>>,
     <<70089, 70092>>, <<70095, 70095>>, <<70191, 70193>>, <<70196, 70196>>, <<70198, 70199>>,
     <<70206, 70206>>, <<70367, 70367>>, <<70371, 70378>>, <<70400, 70401>>, <<70459, 70460>>,
     <<70464, 70464>>, <<70502, 70508>>, <<70512, 70516>>, <<70712, 70719>>, <<70722, 70724>>,
     <<70726, 70726>>, <<70750, 70750>>, <<70835, 70840>>, <<70842, 70842>>, <<70847, 70848>>,
     <<70850, 70851>>, <<71090, 71093>>, <<71100, 71101>>, <<71103, 71104>>, <<71132, 71133>>,
     <<71219, 71226>>, <<71229, 71229>>, <<71231, 71232>>, <<71339, 71339>>, <<71341, 71341>>,
     <<71344, 71349>>, <<71351, 71351>>, <<71453, 71455>>, <<71458, 71461>>, <<71463, 71467>>,
     <<71727, 71735>>, <<71737, 71738>>, <<71995, 71996>>, <<71998, 71998>>, <<72003, 72003>>,
     <<72148, 72151>>, <<72154, 72155>>, <<72160, 72160>>, <<72193, 72202>>, <<72243, 72248>>,
     <<72251, 72254>>, <<72263, 72263>>, <<72273, 72278>>, <<72281, 72283>>, <<72330, 72342>>,
     <<72344, 72345>>, <<72752, 72758>>, <<72760, 72765>>, <<72767, 72767>>, <<72850, 72871>>,
     <<72874, 72880>>, <<72882, 72883>>, <<72885, 72886>>, <<73009, 73014>>, <<73018, 73018>>,
     <<73020, 73021>>, <<73023, 73029>>, <<73031, 73031>>, <<73104, 73105>>, <<73109, 73109>>,
     <<73111, 73111>>, <<73459, 73460>>, <<78896, 78904>>, <<92912, 92916>>, <<92976, 92982>>,
     <<92992, 92995>>, <<94031, 94031>>, <<94095, 94111>>, <<94176, 94177>>, <<94179, 94180>>,
     <<110576, 110579>>, <<110581, 110587>>, <<110589, 110590>>, <<113821, 113822>>, <<113824, 113827>>,
     <<118528, 118573>>, <<118576, 118598>>, <<119143, 119145>>, <<119155, 119170>>, <<119173, 119179>>,
     <<119210, 119213>>, <<119362, 119364>>, <<121344, 121398>>, <<121403, 121452>>, <<121461, 121461>>,
     <<121476, 121476>>, <<121499, 121503>>, <<121505, 121519>>, <<122880, 122886>>, <<122888, 122904>>,
     <<122907, 122913>>, <<122915, 122916>>, <<122918, 122922>>, <<123184, 123197>>, <<123566, 123566>>,
     <<123628, 123631>>, <<125136, 125142>>, <<125252, 125259>>, <<127995, 127999>>, <<917505, 917505>>,
     <<917536, 917631>>, <<917760, 917999>>}

InRanges(c, rs) == \E r \in rs : r[1] <= c /\ c <= r[2]

\* Whether the capital sigma at s[i] ends a word: the nearest character before
\* it that is not case-ignorable is cased, and the nearest one after it, if
\* any, is not.
FinalSigma(s, i) ==
    /\ \E j \in 1..(i - 1) :
         /\ InRanges(s[j], Cased)
         /\ \A k \in (j + 1)..(i - 1) : InRanges(s[k], CaseIgnorable)
    /\ ~ \E j \in (i + 1)..Len(s) :
           /\ InRanges(s[j], Cased)
           /\ \A k \in (i + 1)..(j - 1) : InRanges(s[k], CaseIgnorable)

\* What the character at s[i] becomes: U+03A3 at the end of a word becomes
\* U+03C2, every other character its own lower case.
LowerAt(s, i) == IF s[i] = 931 /\ FinalSigma(s, i) THEN <<962>> ELSE LowerChar(s[i])

RECURSIVE LowerFrom(_, _)
LowerFrom(s, i) == IF i > Len(s) THEN <<>> ELSE LowerAt(s, i) \o LowerFrom(s, i + 1)

\* str.lower()
Lower(s) == LowerFrom(s, 1)

\* word in text
Contains(text, word) ==
    \E i \in 0..(Len(text) - Len(word)) : SubSeq(text, i + 1, i + Len(word)) = word

\* str.replace(old, new) for one-character old and new
Replace(s, old, new) == [i \in 1..Len(s) |-> IF s[i] = old THEN new ELSE s[i]]


(***************************************************************************)
(* Messages.                                                               *)
(***************************************************************************)
AIMessage(content) == [type |-> "ai", content |-> content]

\* Variant: the user's message built with the assistant's class.
HumanMessageAsAI(content) == [type |-> "ai", content |-> content]

HumanMessage(content) == [type |-> "human", content |-> content]

\* A field of the state dict that has no key yet.
Undef == <<-1>>

NoMessage == [type |-> "none", content |-> <<>>]

\* Variant: list.insert(0, message)
ListPrepend(list, message) == <<message>> \o list

\* list.append(message)
ListAppend(list, message) == Append(list, message)

(***************************************************************************)
(* The model service behind llm.invoke: a call returns a response with a   *)
(* content, or raises.                                                     *)
(***************************************************************************)
Return(content) == [raised |-> FALSE, content |-> content]

Raise == [raised |-> TRUE, content |-> <<>>]

Utterances == {UFever, USad}

ClassifyResponses ==
    {RGeneral, REmergency, RMentalHealth, REmergencyPadded, REmergencyNotGeneral,
     RMentalEmergency, RNotSure, <<>>}

PersonaResponses == {PSoundsLike, PPadded, <<>>}

ClassifyOutcomes == {Raise} \cup {Return(c) : c \in ClassifyResponses}

PersonaOutcomes == {Raise} \cup {Return(c) : c \in PersonaResponses}

\* One entry of a script run's history: the step that read or appended to the
\* list, the length the list had then, and what the step received.
Received(at, response) ==
    [at |-> at, seen |-> Len(messages), raised |-> response.raised,
     content |-> response.content]

\* One entry of the call log: who called, the variable parts of the prompt
\* (the text embedded in quotes and, for the persona prompt, the rendered
\* chat history), and what came back.
PortCall(caller, embedded, history, response) ==
    [caller |-> caller, embedded |-> embedded, history |-> history, response |-> response]

(***************************************************************************)
(* Script runs.  Run r is the one started by the r-th text submitted.      *)
(***************************************************************************)
Runs == 1..MaxTurns

\* Streamlit has told run r to stop: a later text was submitted.  The run
\* finds out when it next calls a Streamlit command.
StopRequested(r) == turns > r

\* mental_health_node's prompt before anything of the list is in it.
NoPersona == [history |-> <<>>, embedded |-> Undef]

(***************************************************************************)
(* get_symptom                                                             *)
(***************************************************************************)
\* Variant: the first message instead of the last.
FirstContent(chat_history) == chat_history[1].content

\* state['chat_history'][-1].content
LastContent(chat_history) == chat_history[Len(chat_history)].content

\* Nothing reads the list between the call of graph.invoke (app.py:210) and this
\* node, the graph's entry point: the transcript the graph run is passed is the
\* list as this node finds it, and prior[r] keeps a copy of it.
GetSymptom(r) ==
    /\ pc[r] = "get_symptom"
    /\ prior' = [prior EXCEPT ![r] = messages]
    /\ IF messages = <<>>
       THEN \* [-1] of an empty list raises IndexError
            /\ pc' = [pc EXCEPT ![r] = "raised"]
            /\ UNCHANGED <<symptom, trace, hist>>
       ELSE /\ symptom' = [symptom EXCEPT ![r] = LastContent(messages)]
            /\ pc' = [pc EXCEPT ![r] = "classify"]
            /\ trace' = [trace EXCEPT ![r] = Append(@, "get_symptom")]
            /\ hist' = [hist EXCEPT ![r] = Append(@, Received("get_symptom", Return(<<>>)))]
    /\ UNCHANGED <<messages, prompt, category, persona, ai_response_message, calls, by,
                   turns>>
    /\ UNCHANGED <<parked, current>>

(***************************************************************************)
(* classify_symptom                                                        *)
(***************************************************************************)
\* Variant: "emergency" tested before "general".
ParseCategoryEmergencyFirst(content) ==
    LET text == Lower(Strip(content)) IN
    IF Contains(text, emergency) THEN emergency
    ELSE IF Contains(text, general) THEN general
    ELSE IF Contains(text, mental) THEN mental_health
    ELSE general

\* Variant: "mental" tested before "emergency".
ParseCategoryMentalFirst(content) ==
    LET text == Lower(Strip(content)) IN
    IF Contains(text, general) THEN general
    ELSE IF Contains(text, mental) THEN mental_health
    ELSE IF Contains(text, emergency) THEN emergency
    ELSE general

\* app.py:60-70, from response.content to state['category']
ParseCategory(content) ==
    LET text == Lower(Strip(content)) IN
    IF Contains(text, general) THEN general
    ELSE IF Contains(text, emergency) THEN emergency
    ELSE IF Contains(text, mental) THEN mental_health
    ELSE general

\* The annotation's content, app.py:73
Annotation(cat) == ThinkingPrefix \o Replace(cat, 95, 32) \o ThinkingSuffix

\* The prompt holds state['symptom'] only, so nothing of the list is read before
\* llm.invoke returns; the annotation is appended to the list as it is then.
ClassifySymptom(r) ==
    /\ pc[r] = "classify"
    /\ \E response \in ClassifyOutcomes :
         /\ calls' = [calls EXCEPT ![r] =
                Append(@, PortCall("classify", symptom[r], <<>>, response))]
         /\ hist' = [hist EXCEPT ![r] = Append(@, Received("classify", response))]
         /\ IF response.raised
            THEN /\ pc' = [pc EXCEPT ![r] = "raised"]
                 /\ UNCHANGED <<messages, by, category, trace>>
            ELSE /\ category' = [category EXCEPT ![r] = ParseCategory(response.content)]
                 /\ messages' = ListAppend(messages, AIMessage(Annotation(category'[r])))
                 /\ by' = Append(by, r)
                 /\ pc' = [pc EXCEPT ![r] = "route"]
                 /\ trace' = [trace EXCEPT ![r] = Append(@, "classify")]
    /\ UNCHANGED <<prompt, symptom, persona, ai_response_message, prior, turns>>
    /\ UNCHANGED <<parked, current>>

(***************************************************************************)
(* symptom_router and the conditional edges                                *)
(***************************************************************************)
symptom_router(cat) == cat

\* Variant: the general and the mental-health targets exchanged.
ConditionalEdgesGeneralToMental ==
    (general :> "mental_health_conversation") @@ (emergency :> "emergency")
        @@ (mental_health :> "general")

\* Variant: the emergency and the general targets exchanged.
ConditionalEdgesSwapped ==
    (general :> "emergency") @@ (emergency :> "general")
        @@ (mental_health :> "mental_health_conversation")

ConditionalEdges ==
    (general :> "general") @@ (emergency :> "emergency")
        @@ (mental_health :> "mental_health_conversation")

Route(r) ==
    /\ pc[r] = "route"
    /\ symptom_router(category[r]) \in DOMAIN ConditionalEdges
    /\ pc' = [pc EXCEPT ![r] = ConditionalEdges[symptom_router(category[r])]]
    /\ UNCHANGED <<messages, prompt, symptom, category, persona, ai_response_message,
                   prior, calls, trace, by, turns, hist>>
    /\ UNCHANGED <<parked, current>>

(***************************************************************************)
(* The three handlers                                                      *)
(***************************************************************************)
GeneralText(s) == GeneralPrefix \o s \o GeneralSuffix

\* Variant: the handler embeds the last message of the chat history.
GeneralNodeUsesLastMessage(r) ==
    /\ pc[r] = "general"
    /\ messages' = ListAppend(messages, AIMessage(GeneralText(LastContent(messages))))
    /\ by' = Append(by, r)
    /\ pc' = [pc EXCEPT ![r] = "END"]
    /\ trace' = [trace EXCEPT ![r] = Append(@, "general")]
    /\ hist' = [hist EXCEPT ![r] = Append(@, Received("general", Return(<<>>)))]
    /\ UNCHANGED <<prompt, symptom, category, persona, ai_response_message, prior,
                   calls, turns>>
    /\ UNCHANGED <<parked, current>>

GeneralNode(r) ==
    /\ pc[r] = "general"
    /\ messages' = ListAppend(messages, AIMessage(GeneralText(symptom[r])))
    /\ by' = Append(by, r)
    /\ pc' = [pc EXCEPT ![r] = "END"]
    /\ trace' = [trace EXCEPT ![r] = Append(@, "general")]
    /\ hist' = [hist EXCEPT ![r] = Append(@, Received("general", Return(<<>>)))]
    /\ UNCHANGED <<prompt, symptom, category, persona, ai_response_message, prior,
                   calls, turns>>
    /\ UNCHANGED <<parked, current>>

EmergencyText(s) == EmergencyPrefix \o s \o EmergencySuffix

EmergencyNode(r) ==
    /\ pc[r] = "emergency"
    /\ messages' = ListAppend(messages, AIMessage(EmergencyText(symptom[r])))
    /\ by' = Append(by, r)
    /\ pc' = [pc EXCEPT ![r] = "END"]
    /\ trace' = [trace EXCEPT ![r] = Append(@, "emergency")]
    /\ hist' = [hist EXCEPT ![r] = Append(@, Received("emergency", Return(<<>>)))]
    /\ UNCHANGED <<prompt, symptom, category, persona, ai_response_message, prior,
                   calls, turns>>
    /\ UNCHANGED <<parked, current>>

\* app.py:121: the list is rendered into the prompt.
MentalHealthPrompt(r) ==
    /\ pc[r] = "mental_health_conversation"
    /\ persona' = [persona EXCEPT ![r] = [history |-> messages, embedded |-> Undef]]
    /\ pc' = [pc EXCEPT ![r] = "mental_health_quote"]
    /\ UNCHANGED <<messages, prompt, symptom, category, ai_response_message, prior,
                   calls, trace, by, turns, hist>>
    /\ UNCHANGED <<parked, current>>

\* app.py:123: the content of the list's last message is quoted in the prompt.
MentalHealthQuote(r) ==
    /\ pc[r] = "mental_health_quote"
    /\ persona' = [persona EXCEPT ![r].embedded = LastContent(messages)]
    /\ pc' = [pc EXCEPT ![r] = "mental_health_invoke"]
    /\ UNCHANGED <<messages, prompt, symptom, category, ai_response_message, prior,
                   calls, trace, by, turns, hist>>
    /\ UNCHANGED <<parked, current>>

\* The content of the reply built from the persona call's response, app.py:127
PersonaReply(response) == response.content

\* Variant: the conversational node has an edge back to itself instead of END.
MentalHealthNodeLoops(r) ==
    /\ pc[r] = "mental_health_invoke"
    /\ \E response \in PersonaOutcomes :
         /\ calls' = [calls EXCEPT ![r] =
                Append(@, PortCall("mental_health_conversation", persona[r].embedded,
                                   persona[r].history, response))]
         /\ hist' = [hist EXCEPT ![r] =
                Append(@, Received("mental_health_conversation", response))]
         /\ IF response.raised
            THEN /\ pc' = [pc EXCEPT ![r] = "raised"]
                 /\ UNCHANGED <<messages, by, trace>>
            ELSE /\ messages' = ListAppend(messages, AIMessage(PersonaReply(response)))
                 /\ by' = Append(by, r)
                 /\ pc' = [pc EXCEPT ![r] = "mental_health_conversation"]
                 /\ trace' = [trace EXCEPT ![r] = Append(@, "mental_health_conversation")]
    /\ UNCHANGED <<prompt, symptom, category, persona, ai_response_message, prior, turns>>
    /\ UNCHANGED <<parked, current>>

\* app.py:126-128: llm.invoke returns or raises; the reply is appended to the
\* list as it is then.
MentalHealthNode(r) ==
    /\ pc[r] = "mental_health_invoke"
    /\ \E response \in PersonaOutcomes :
         /\ calls' = [calls EXCEPT ![r] =
                Append(@, PortCall("mental_health_conversation", persona[r].embedded,
                                   persona[r].history, response))]
         /\ hist' = [hist EXCEPT ![r] =
                Append(@, Received("mental_health_conversation", response))]
         /\ IF response.raised
            THEN /\ pc' = [pc EXCEPT ![r] = "raised"]
                 /\ UNCHANGED <<messages, by, trace>>
            ELSE /\ messages' = ListAppend(messages, AIMessage(PersonaReply(response)))
                 /\ by' = Append(by, r)
                 /\ pc' = [pc EXCEPT ![r] = "END"]
                 /\ trace' = [trace EXCEPT ![r] = Append(@, "mental_health_conversation")]
    /\ UNCHANGED <<prompt, symptom, category, persona, ai_response_message, prior, turns>>
    /\ UNCHANGED <<parked, current>>

(***************************************************************************)
(* The Streamlit script                                                    *)
(***************************************************************************)
\* The user submits a text in st.chat_input (app.py:198).  The widget is never
\* disabled, so this can happen whatever the earlier runs are doing: they are
\* told to stop, and a new script run starts at the top of the script.
UserInput(text) ==
    /\ turns < MaxTurns
    /\ turns' = turns + 1
    /\ prompt' = [prompt EXCEPT ![turns + 1] = text]
    /\ pc' = [pc EXCEPT ![turns + 1] = "start"]
    /\ UNCHANGED <<messages, symptom, category, persona, ai_response_message, prior,
                   calls, trace, by, hist>>
    /\ UNCHANGED <<parked, current>>

\* app.py:178-200: the run reaches st.chat_input, which hands it the text, and
\* appends the user's message; told to stop by then, it stops at one of the
\* Streamlit commands on the way.
AppendPrompt(r) ==
    /\ pc[r] = "start"
    /\ IF StopRequested(r)
       THEN /\ pc' = [pc EXCEPT ![r] = "stopped"]
            /\ UNCHANGED <<messages, by, hist>>
       ELSE /\ messages' = ListAppend(messages, HumanMessage(prompt[r]))
            /\ by' = Append(by, r)
            /\ pc' = [pc EXCEPT ![r] = "appended"]
            /\ hist' = [hist EXCEPT ![r] = Append(@, Received("append", Return(prompt[r])))]
    /\ UNCHANGED <<prompt, symptom, category, persona, ai_response_message, prior,
                   calls, trace, turns>>
    /\ UNCHANGED <<parked, current>>

\* app.py:201-209: st.chat_message, write and st.spinner are Streamlit commands;
\* a run told to stop ends at one of them, with its message left in the list.
EnterSpinner(r) ==
    /\ pc[r] = "appended"
    /\ pc' = [pc EXCEPT ![r] = IF StopRequested(r) THEN "stopped" ELSE "invoke"]
    /\ UNCHANGED <<messages, prompt, symptom, category, persona, ai_response_message,
                   prior, calls, trace, by, turns, hist>>
    /\ UNCHANGED <<parked, current>>

\* Variant: the state dict of the previous run is reused, category included.
InvokeKeepsCategory(r) ==
    /\ pc[r] = "invoke"
    /\ symptom' = [symptom EXCEPT ![r] = Undef]
    /\ category' = [category EXCEPT ![r] = IF r > 1 THEN category[r - 1] ELSE Undef]
    /\ pc' = [pc EXCEPT ![r] = "get_symptom"]
    /\ UNCHANGED <<messages, prompt, persona, ai_response_message, prior, calls, trace,
                   by, turns, hist>>
    /\ UNCHANGED <<parked, current>>

\* app.py:204-210: graph.invoke is called on a new state dict that holds the
\* session's list and nothing else.
Invoke(r) ==
    /\ pc[r] = "invoke"
    /\ symptom' = [symptom EXCEPT ![r] = Undef]
    /\ category' = [category EXCEPT ![r] = Undef]
    /\ pc' = [pc EXCEPT ![r] = "get_symptom"]
    /\ UNCHANGED <<messages, prompt, persona, ai_response_message, prior, calls, trace,
                   by, turns, hist>>
    /\ UNCHANGED <<parked, current>>

\* app.py:209-210: graph.invoke has returned and the spinner is left, which is a
\* Streamlit command: a run told to stop ends here, before app.py:214.
ExitSpinner(r) ==
    /\ pc[r] = "END"
    /\ pc' = [pc EXCEPT ![r] = IF StopRequested(r) THEN "stopped" ELSE "commit"]
    /\ UNCHANGED <<messages, prompt, symptom, category, persona, ai_response_message,
                   prior, calls, trace, by, turns, hist>>
    /\ UNCHANGED <<parked, current>>

\* app.py:214-220: the last message of the list, as it is now, is taken as the
\* response, and the list is stored as the session's list, which it already is.
CommitTurn(r) ==
    /\ pc[r] = "commit"
    /\ ai_response_message' = [ai_response_message EXCEPT ![r] = messages[Len(messages)]]
    /\ messages' = messages
    /\ pc' = [pc EXCEPT ![r] = "done"]
    /\ UNCHANGED <<prompt, symptom, category, persona, prior, calls, trace, by, turns,
                   hist>>
    /\ UNCHANGED <<parked, current>>

(***************************************************************************)
(* Specifications                                                          *)
(***************************************************************************)
GraphStep(r) ==
    \/ GetSymptom(r)
    \/ ClassifySymptom(r)
    \/ Route(r)
    \/ GeneralNode(r)
    \/ EmergencyNode(r)
    \/ MentalHealthPrompt(r)
    \/ MentalHealthQuote(r)
    \/ MentalHealthNode(r)

ScriptStep(r) ==
    \/ AppendPrompt(r)
    \/ EnterSpinner(r)
    \/ Invoke(r)
    \/ ExitSpinner(r)
    \/ CommitTurn(r)

\* The state of a session that has just been created, app.py:185-188: its first
\* script run, which gets no text, has put the greeting into the list.
FreshSession ==
    [messages |-> <<AIMessage(Greeting)>>,
     prompt |-> [r \in Runs |-> Undef],
     pc |-> [r \in Runs |-> "none"],
     symptom |-> [r \in Runs |-> Undef],
     category |-> [r \in Runs |-> Undef],
     persona |-> [r \in Runs |-> NoPersona],
     ai_response_message |-> [r \in Runs |-> NoMessage],
     prior |-> [r \in Runs |-> <<>>],
     calls |-> [r \in Runs |-> <<>>],
     trace |-> [r \in Runs |-> <<>>],
     by |-> <<0>>,
     turns |-> 0,
     hist |-> [r \in Runs |-> <<>>]]

\* A session of the application, app.py:185-188
Init ==
    /\ messages = FreshSession.messages
    /\ prompt = FreshSession.prompt
    /\ pc = FreshSession.pc
    /\ symptom = FreshSession.symptom
    /\ category = FreshSession.category
    /\ persona = FreshSession.persona
    /\ ai_response_message = FreshSession.ai_response_message
    /\ prior = FreshSession.prior
    /\ calls = FreshSession.calls
    /\ trace = FreshSession.trace
    /\ by = FreshSession.by
    /\ turns = FreshSession.turns
    /\ hist = FreshSession.hist
    /\ parked = FreshSession
    /\ current = 1

Next ==
    \/ \E text \in Utterances : UserInput(text)
    \/ \E r \in Runs : ScriptStep(r)
    \/ \E r \in Runs : GraphStep(r)

Spec == Init /\ [][Next]_vars

\* A step of some script run.
RunStep == \E r \in Runs : ScriptStep(r) \/ GraphStep(r)

\* The threads of the script runs are scheduled, and every llm.invoke returns or
\* raises: while some run can take a step, a step of a run is taken.
SpecFair == Spec /\ WF_vars(RunStep)

(***************************************************************************)
(* Two sessions.  Each session has a st.session_state of its own and       *)
(* script runs of its own; the threads of the two sessions interleave step *)
(* by step.  The variables hold the session that takes the next step,      *)
(* parked holds the other one.                                             *)
(***************************************************************************)
SessionState ==
    [messages |-> messages, prompt |-> prompt, pc |-> pc, symptom |-> symptom,
     category |-> category, persona |-> persona,
     ai_response_message |-> ai_response_message, prior |-> prior, calls |-> calls,
     trace |-> trace, by |-> by, turns |-> turns, hist |-> hist]

\* Variant: the transcript is one module-level list that both sessions use.
SwitchSharedMessages ==
    /\ parked' = SessionState
    /\ messages' = messages
    /\ prompt' = parked.prompt
    /\ pc' = parked.pc
    /\ symptom' = parked.symptom
    /\ category' = parked.category
    /\ persona' = parked.persona
    /\ ai_response_message' = parked.ai_response_message
    /\ prior' = parked.prior
    /\ calls' = parked.calls
    /\ trace' = parked.trace
    /\ by' = parked.by
    /\ turns' = parked.turns
    /\ hist' = parked.hist
    /\ current' = 3 - current

\* A thread of the other session is scheduled.
Switch ==
    /\ parked' = SessionState
    /\ messages' = parked.messages
    /\ prompt' = parked.prompt
    /\ pc' = parked.pc
    /\ symptom' = parked.symptom
    /\ category' = parked.category
    /\ persona' = parked.persona
    /\ ai_response_message' = parked.ai_response_message
    /\ prior' = parked.prior
    /\ calls' = parked.calls
    /\ trace' = parked.trace
    /\ by' = parked.by
    /\ turns' = parked.turns
    /\ hist' = parked.hist
    /\ current' = 3 - current

\* Each session's user types a text of their own.
SessionUtterance(session) == IF session = 1 THEN UFever ELSE USad

SessionInput ==
    /\ turns + parked.turns < MaxTotalTurns
    /\ UserInput(SessionUtterance(current))

NextSessions ==
    \/ SessionInput
    \/ \E r \in Runs : ScriptStep(r)
    \/ \E r \in Runs : GraphStep(r)
    \/ Switch

SpecSessions == Init /\ [][NextSessions]_vars

\* graph.invoke called directly on any transcript of up to MaxLen messages
SampleMessages == {AIMessage(Greeting), HumanMessage(UFever), HumanMessage(USad)}

Transcripts == UNION {[1..n -> SampleMessages] : n \in 0..MaxLen}

InitInvoke ==
    /\ messages \in Transcripts
    /\ prompt = FreshSession.prompt
    /\ pc = [FreshSession.pc EXCEPT ![1] = "get_symptom"]
    /\ symptom = FreshSession.symptom
    /\ category = FreshSession.category
    /\ persona = FreshSession.persona
    /\ ai_response_message = FreshSession.ai_response_message
    /\ prior = [FreshSession.prior EXCEPT ![1] = messages]
    /\ calls = FreshSession.calls
    /\ trace = FreshSession.trace
    /\ by = [i \in 1..Len(messages) |-> 0]
    /\ turns = 1
    /\ hist = FreshSession.hist
    /\ parked = FreshSession
    /\ current = 1

SpecInvoke == InitInvoke /\ [][\E r \in Runs : GraphStep(r)]_vars

(***************************************************************************)
(* Vocabulary of the properties                                            *)
(***************************************************************************)
IsPrefix(s, t) == Len(s) <= Len(t) /\ SubSeq(t, 1, Len(s)) = s

HandlerNodes == {"general", "emergency", "mental_health_conversation"}

\* Where a run is while one of the handlers is executing.
InHandler == {"general", "emergency", "mental_health_conversation",
              "mental_health_quote", "mental_health_invoke"}

\* Where a run is once it is over.
Ended == {"done", "stopped", "raised"}

RunsOf(r, nodes) == Cardinality({i \in DOMAIN trace[r] : trace[r][i] \in nodes})

\* The graph run of script run r has reached END: the turn has succeeded.
Succeeded(r) == RunsOf(r, HandlerNodes) > 0

\* The classifier's call of run r returned a response.
Classified(r) ==
    /\ calls[r] # <<>>
    /\ calls[r][1].caller = "classify"
    /\ ~calls[r][1].response.raised

\* The text the classifier tests: the response, trimmed and lower-cased.
ClassifiedText(r) == Lower(Strip(calls[r][1].response.content))

CallsBy(r, caller) == {i \in DOMAIN calls[r] : calls[r][i].caller = caller}

\* The positions of the list that hold the messages run r appended.
Own(r) == {i \in DOMAIN messages : by[i] = r}

\* The position of the last message run r appended.
LastOwn(r) == CHOOSE i \in Own(r) : \A j \in Own(r) : j <= i

\* The reply the handler selected by run r's category gives.
HandlerReply(r) ==
    IF category[r] = general THEN AIMessage(GeneralText(symptom[r]))
    ELSE IF category[r] = emergency THEN AIMessage(EmergencyText(symptom[r]))
    ELSE AIMessage(calls[r][Len(calls[r])].response.content)

(***************************************************************************)
(* C1: if the model service fails during a turn, the transcript the        *)
(* session holds after the failed turn is the transcript passed into the   *)
(* graph: the turn has left nothing of its own behind, neither the         *)
(* annotation nor the reply.  (Messages that other script runs of the      *)
(* session appended meanwhile are not counted against the failed turn.)    *)
(***************************************************************************)
C1_NoPartialCommit ==
    \A r \in Runs :
        pc[r] = "raised" =>
            /\ IsPrefix(prior[r], messages)
            /\ \A i \in Own(r) : i <= Len(prior[r])

(***************************************************************************)
(* C2 as stated: whenever the classification response contains             *)
(* "emergency", the category is emergency, whatever else it contains.      *)
(***************************************************************************)
C2_EmergencyAlwaysWins ==
    \A r \in Runs :
        (Classified(r) /\ Contains(ClassifiedText(r), emergency)) =>
            category[r] = emergency

(***************************************************************************)
(* C2 as amended: whenever the classification response contains            *)
(* "emergency" and does not contain "general", the category is emergency,  *)
(* whether or not "mental" appears; when it contains "general" as well,    *)
(* the category is general.                                                *)
(***************************************************************************)
C2_EmergencyWinsUnlessGeneral ==
    \A r \in Runs :
        (Classified(r) /\ Contains(ClassifiedText(r), emergency)) =>
            /\ ~Contains(ClassifiedText(r), general) => category[r] = emergency
            /\ Contains(ClassifiedText(r), general) => category[r] = general

C2_Witness ==
    \E r \in Runs :
        /\ Classified(r)
        /\ calls[r][1].response.content = RMentalEmergency
        /\ category[r] = emergency

(***************************************************************************)
(* C3: the category is the result of the ordered rule on the trimmed,      *)
(* lower-cased response: "general" first, then "emergency", then "mental", *)
(* else general.  A response with both "general" and "emergency" gives     *)
(* general, and a response with none of the three words gives general.     *)
(***************************************************************************)
C3_OrderedRule ==
    \A r \in Runs :
        Classified(r) =>
            LET hasG == Contains(ClassifiedText(r), general)
                hasE == Contains(ClassifiedText(r), emergency)
                hasM == Contains(ClassifiedText(r), mental)
            IN  /\ category[r] \in {general, emergency, mental_health}
                /\ category[r] = general <=> (hasG \/ (~hasE /\ ~hasM))
                /\ category[r] = emergency <=> (~hasG /\ hasE)
                /\ category[r] = mental_health <=> (~hasG /\ ~hasE /\ hasM)
                /\ calls[r][1].response.content \in {REmergencyNotGeneral, RNotSure, <<>>}
                       => category[r] = general

C3_Witness ==
    \E r \in Runs :
        /\ Classified(r)
        /\ calls[r][1].response.content = REmergencyNotGeneral
        /\ category[r] = general
        /\ pc[r] = "general"

(***************************************************************************)
(* C4: the graph invoked on an empty transcript, or on one whose last      *)
(* message is assistant-authored, fails before any call to the model       *)
(* service: no call is made and no message is appended.                    *)
(***************************************************************************)
C4_PreconditionRejected ==
    \A r \in Runs :
        (pc[r] # "none" /\ (prior[r] = <<>> \/ prior[r][Len(prior[r])].type = "ai")) =>
            /\ calls[r] = <<>>
            /\ messages = prior[r]
            /\ pc[r] \in {"get_symptom", "raised"}

(***************************************************************************)
(* C5: after a successful turn, whatever the category, the transcript the  *)
(* turn returns is the transcript passed in plus exactly two assistant     *)
(* messages: first the classifier's annotation, then the reply of the      *)
(* handler the category selects.  The transcript the turn returns is the   *)
(* list up to the reply the turn has appended.                             *)
(***************************************************************************)
C5_SuccessfulTurnAppendsTwo ==
    \A r \in Runs :
        Succeeded(r) =>
            LET n == Len(prior[r]) IN
            /\ IsPrefix(prior[r], messages)
            /\ LastOwn(r) = n + 2
            /\ by[n + 1] = r
            /\ messages[n + 1] = AIMessage(Annotation(category[r]))
            /\ messages[n + 2] = HandlerReply(r)

(***************************************************************************)
(* C6: the transcript is append-only: no step of any turn, successful or   *)
(* failed, removes, reorders or edits a message; the transcript before a   *)
(* step is a prefix of the transcript after it.                            *)
(***************************************************************************)
C6_AppendOnly == [][IsPrefix(messages, messages')]_vars

\* A second turn has completed after a first one that failed in the handler.
C6_Witness ==
    /\ pc[1] = "raised"
    /\ pc[2] = "done"
    /\ Len(messages) = 6
    /\ messages[3].type = "ai"
    /\ messages[4].type = "human"

(***************************************************************************)
(* C7: in every turn the classifier calls the model service exactly once,  *)
(* and there is a second call only when the category is mental_health: a   *)
(* successful general or emergency turn makes one call, a successful       *)
(* mental_health turn two, and the handler's call comes after the          *)
(* classifier's call has returned.                                         *)
(***************************************************************************)
C7_PortCalls ==
    \A r \in Runs :
        /\ (pc[r] \in {"route", "END", "commit", "done", "raised"} \cup InHandler
               \/ Succeeded(r)) =>
               /\ Cardinality(CallsBy(r, "classify")) = 1
               /\ calls[r][1].caller = "classify"
        /\ Cardinality(CallsBy(r, "classify")) <= 1
        /\ Succeeded(r) => Len(calls[r]) = (IF category[r] = mental_health THEN 2 ELSE 1)
        /\ Len(calls[r]) <= 2
        /\ Len(calls[r]) = 2 =>
               /\ category[r] = mental_health
               /\ calls[r][2].caller = "mental_health_conversation"
               /\ ~calls[r][1].response.raised

C7_Witness ==
    \E r \in Runs :
        /\ pc[r] = "END"
        /\ category[r] = mental_health
        /\ Len(calls[r]) = 2
        /\ calls[r][1].response.content = RMentalHealth

(***************************************************************************)
(* C8: routing is total and pure: the category reaching the router is one  *)
(* of general, emergency, mental_health; the router sends general to the   *)
(* general handler, emergency to the emergency handler and mental_health   *)
(* to the mental-health handler, leaving transcript, symptom and category  *)
(* unchanged; and exactly one handler runs in a turn that reaches END.     *)
(***************************************************************************)
C8_RoutingTotalAndPure ==
    /\ [](\A r \in Runs :
            pc[r] = "route" => category[r] \in {general, emergency, mental_health})
    /\ [](\A r \in Runs :
            /\ RunsOf(r, HandlerNodes) <= 1
            /\ pc[r] \in {"END", "commit", "done"} => RunsOf(r, HandlerNodes) = 1)
    /\ [][\A r \in Runs :
            (pc[r] = "route" /\ pc'[r] # "route") =>
                /\ category[r] = general => pc'[r] = "general"
                /\ category[r] = emergency => pc'[r] = "emergency"
                /\ category[r] = mental_health => pc'[r] = "mental_health_conversation"
                /\ messages' = messages
                /\ symptom' = symptom
                /\ category' = category]_vars

C8_Witness ==
    \E r \in Runs :
        /\ pc[r] = "emergency"
        /\ category[r] = emergency
        /\ trace[r] = <<"get_symptom", "classify">>

C10_PersonaReplyIsRaw ==
    \A r \in Runs :
        (Succeeded(r) /\ category[r] = mental_health) =>
            LET raw == calls[r][Len(calls[r])].response.content IN
            /\ messages[LastOwn(r)] = [type |-> "ai", content |-> raw]
            /\ pc[r] = "done" => ai_response_message[r] = [type |-> "ai", content |-> raw]

(***************************************************************************)
(* C11: when the model service returns empty text to the mental-health     *)
(* handler the turn fails: no assistant message with empty content is ever *)
(* appended to the transcript as a reply.                                  *)
(***************************************************************************)
C11_NoEmptyReply ==
    \A i \in DOMAIN messages : messages[i].type = "ai" => messages[i].content # <<>>

(***************************************************************************)
(* C12: in every state of a session, after any turns, failed ones          *)
(* included, the first entry of the transcript is the assistant's          *)
(* greeting, and every assistant message a turn has appended comes, in the *)
(* transcript, after the user message of that same turn: no turn appends   *)
(* assistant output without its new user message before it.                *)
(***************************************************************************)
C12_GreetingFirstUserBeforeOutput ==
    /\ messages[1] = [type |-> "ai", content |-> Greeting]
    /\ by[1] = 0
    /\ \A i \in 2..Len(messages) :
           /\ by[i] \in 1..turns
           /\ messages[i].type = "ai" =>
                  \E j \in 2..(i - 1) :
                      /\ by[j] = by[i]
                      /\ messages[j] = [type |-> "human", content |-> prompt[by[i]]]
    /\ \A r \in Runs :
           Cardinality({j \in Own(r) : messages[j].type = "human"}) <= 1

\* Two turns of the session overlap: the reply of the first lands after the
\* messages of the second.
C12_Witness ==
    /\ Len(messages) = 7
    /\ by = <<0, 1, 1, 2, 2, 2, 1>>
    /\ messages[4].type = "human"
    /\ messages[7].type = "ai"

(***************************************************************************)
(* C13: the general and the emergency handler are deterministic in the     *)
(* symptom alone: two turns with the same symptom and the same category    *)
(* (general or emergency) get the same reply, whatever the rest of the     *)
(* transcript and whatever the model service answered, and the reply       *)
(* contains the symptom verbatim.                                          *)
(***************************************************************************)
\* Run r's general or emergency handler has appended its reply.
Templated(r) == RunsOf(r, {"general", "emergency"}) > 0

\* The reply run r's handler appended: the last message the run appended.
Reply(r) == messages[LastOwn(r)]

C13_TemplatedRepliesDeterministic ==
    \A r, q \in Runs :
        /\ Templated(r) =>
               /\ category[r] \in {general, emergency}
               /\ Reply(r).type = "ai"
               /\ Contains(Reply(r).content, symptom[r])
        /\ (/\ Templated(r)
            /\ Templated(q)
            /\ symptom[r] = symptom[q]
            /\ category[r] = category[q]) => Reply(r) = Reply(q)

\* Two overlapping general turns on the same text, classified from different
\* responses, each with a transcript of its own.
C13_Witness ==
    /\ Templated(1)
    /\ Templated(2)
    /\ symptom[1] = symptom[2]
    /\ category[1] = general
    /\ category[2] = general
    /\ calls[1][1].response.content = RGeneral
    /\ calls[2][1].response.content = RNotSure
    /\ LastOwn(2) < LastOwn(1)

(***************************************************************************)
(* C14: in a mental_health turn the text the persona prompt quotes as the  *)
(* user's latest message is the user's utterance of this turn (symptom,    *)
(* the last message of the transcript passed in), not a message appended   *)
(* during the turn such as the classifier's annotation.                    *)
(***************************************************************************)
C14_PersonaPromptQuotesUtterance ==
    \A r \in Runs :
        \A i \in DOMAIN calls[r] :
            calls[r][i].caller = "mental_health_conversation" =>
                /\ calls[r][i].embedded = symptom[r]
                /\ calls[r][i].embedded = prior[r][Len(prior[r])].content

(***************************************************************************)
(* C15: category is undefined from the start of a turn until the           *)
(* classifier runs, the classifier assigns it once, to general, emergency  *)
(* or mental_health, and neither the router nor a handler changes it.      *)
(***************************************************************************)
C15_CategoryAssignedOnce ==
    /\ [](\A r \in Runs : pc[r] \in {"get_symptom", "classify"} => category[r] = Undef)
    /\ [](\A r \in Runs :
            pc[r] \in {"route", "END"} \cup InHandler =>
                category[r] \in {general, emergency, mental_health})
    /\ [][\A r \in Runs :
            (pc[r] = "classify" /\ category'[r] # category[r]) =>
                /\ category[r] = Undef
                /\ category'[r] \in {general, emergency, mental_health}
                /\ pc'[r] = "route"]_vars
    /\ [][\A r \in Runs :
            (pc[r] \in {"route", "END"} \cup InHandler) => category'[r] = category[r]]_vars

\* A second turn classified differently from the first.
C15_Witness ==
    /\ pc[2] = "END"
    /\ pc[1] = "done"
    /\ category[1] = mental_health
    /\ category[2] = emergency

(***************************************************************************)
(* C16: given that every call to the model service returns or fails, every *)
(* turn terminates, with one handler execution and one reply when it       *)
(* reaches END: each handler, the mental-health one included, goes         *)
(* straight to END and no node runs twice in a turn.  A script run is      *)
(* started once, so it terminates when from some point on it is not        *)
(* running any more.                                                       *)
(***************************************************************************)
\* The assistant messages run r has appended.
OwnOutput(r) == {i \in Own(r) : messages[i].type = "ai"}

C16_TurnTerminatesAfterOneHandler ==
    /\ <>[](\A r \in Runs : pc[r] \in Ended \cup {"none"})
    /\ [](\A r \in Runs :
            /\ RunsOf(r, HandlerNodes) <= 1
            /\ RunsOf(r, {"classify"}) <= 1
            /\ RunsOf(r, {"get_symptom"}) <= 1
            /\ Cardinality(OwnOutput(r)) <= 2
            /\ (pc[r] \in {"END", "commit", "done"} \/ Succeeded(r)) =>
                   /\ RunsOf(r, HandlerNodes) = 1
                   /\ Cardinality(OwnOutput(r)) = 2
                   /\ messages[LastOwn(r)] = HandlerReply(r))
    /\ [][\A r \in Runs :
            (pc[r] \in {"general", "emergency", "mental_health_invoke"}
                 /\ pc'[r] # pc[r]) => pc'[r] \in {"END", "raised"}]_vars
    /\ [][\A r \in Runs :
            /\ (pc[r] = "mental_health_conversation" /\ pc'[r] # pc[r]) =>
                   pc'[r] = "mental_health_quote"
            /\ (pc[r] = "mental_health_quote" /\ pc'[r] # pc[r]) =>
                   pc'[r] = "mental_health_invoke"]_vars
    /\ [][\A r \in Runs :
            (pc[r] = "END" /\ pc'[r] # pc[r]) => pc'[r] \in {"commit", "stopped"}]_vars
    /\ [][\A r \in Runs : pc[r] \in Ended => pc'[r] = pc[r]]_vars

\* A turn overtaken by the next text has run to END and been stopped, and the
\* turn of that next text has run through the conversational handler.
C16_Witness ==
    /\ pc[1] = "stopped"
    /\ Succeeded(1)
    /\ pc[2] = "done"
    /\ trace[2] = <<"get_symptom", "classify", "mental_health_conversation">>

(***************************************************************************)
(* C17: the turns of two sessions interleave without interference: under   *)
(* every interleaving of their steps, the transcript, symptom and category *)
(* of each session are the ones it gets running alone, that is, the ones   *)
(* its own script runs produce from what the session itself received, in   *)
(* the order its own steps took place; and a step of one session leaves    *)
(* the state of the other session as it was.                               *)
(***************************************************************************)
\* The steps of a session's runs that appended a message.
Appending(e) == ~e.raised /\ e.at # "get_symptom"

\* <<r, i>>: the i-th thing run r received came with a step that appended.
AppendsOf(h) ==
    UNION {{<<r, i>> : i \in {j \in DOMAIN h[r] : Appending(h[r][j])}} : r \in Runs}

\* What a session running alone holds after its runs received h: message k of
\* its list is the greeting or what the step that found k - 1 messages appended.
RECURSIVE AloneMessage(_, _)
AloneSymptom(h, r) ==
    IF \E i \in DOMAIN h[r] : h[r][i].at = "get_symptom"
    THEN LET i == CHOOSE i \in DOMAIN h[r] : h[r][i].at = "get_symptom"
         IN  AloneMessage(h, h[r][i].seen).content
    ELSE Undef

AloneCategory(h, r) ==
    IF \E i \in DOMAIN h[r] : h[r][i].at = "classify" /\ ~h[r][i].raised
    THEN LET i == CHOOSE i \in DOMAIN h[r] : h[r][i].at = "classify"
         IN  ParseCategory(h[r][i].content)
    ELSE Undef

AloneMessage(h, k) ==
    IF k = 1
    THEN AIMessage(Greeting)
    ELSE LET x == CHOOSE x \in AppendsOf(h) : h[x[1]][x[2]].seen = k - 1
             r == x[1]
             e == h[r][x[2]]
         IN  IF e.at = "append" THEN HumanMessage(e.content)
             ELSE IF e.at = "classify"
             THEN AIMessage(Annotation(ParseCategory(e.content)))
             ELSE IF e.at = "general" THEN AIMessage(GeneralText(AloneSymptom(h, r)))
             ELSE IF e.at = "emergency" THEN AIMessage(EmergencyText(AloneSymptom(h, r)))
             ELSE AIMessage(PersonaReply([content |-> e.content]))

Alone(h) ==
    [messages |-> [k \in 1..(1 + Cardinality(AppendsOf(h))) |-> AloneMessage(h, k)],
     symptom |-> [r \in Runs |-> AloneSymptom(h, r)],
     category |-> [r \in Runs |-> AloneCategory(h, r)]]

AsAlone(s) ==
    LET alone == Alone(s.hist) IN
    /\ s.messages = alone.messages
    /\ s.symptom = alone.symptom
    /\ s.category = alone.category

C17_SessionsDoNotInterfere ==
    /\ [](AsAlone(SessionState) /\ AsAlone(parked))
    /\ [][current' = current => parked' = parked]_vars

\* Both sessions are in the middle of a turn, each past its classification.
C17_Witness ==
    /\ pc[1] = "END"
    /\ category[1] = general
    /\ parked.pc[1] = "mental_health_quote"
    /\ parked.messages[2] # messages[2]

(***************************************************************************)
(* C18: after a successful turn the message the driver takes as the AI     *)
(* response, the last of the returned transcript, is the reply of the      *)
(* handler selected in this turn: not the classifier's annotation and not  *)
(* a message of an earlier turn.                                           *)
(***************************************************************************)
C18_ResponseIsThisTurnsReply ==
    \A r \in Runs :
        pc[r] = "done" =>
            /\ ai_response_message[r] = messages[LastOwn(r)]
            /\ ai_response_message[r] = HandlerReply(r)
            /\ ai_response_message[r] # AIMessage(Annotation(category[r]))

(***************************************************************************)
(* C19: after n successful turns the session's transcript has 1 + 3n       *)
(* messages: the assistant's greeting, then for each turn the user's       *)
(* utterance, the assistant's annotation and the assistant's reply; and    *)
(* the transcript handed to the next turn is the transcript returned by    *)
(* the turn before plus the one new user message.                          *)
(***************************************************************************)
\* No script run is going, and none has failed.
NoneGoingNoneFailed == \A r \in Runs : pc[r] \in {"none", "done", "stopped"}

C19_TranscriptShape ==
    NoneGoingNoneFailed =>
        LET n == Cardinality({r \in Runs : Succeeded(r)}) IN
        /\ Len(messages) = 1 + 3 * n
        /\ messages[1] = [type |-> "ai", content |-> Greeting]
        /\ \A k \in 1..n :
               /\ messages[3 * k - 1].type = "human"
               /\ messages[3 * k].type = "ai"
               /\ IsPrefix(ThinkingPrefix, messages[3 * k].content)
               /\ messages[3 * k + 1].type = "ai"
               /\ ~IsPrefix(ThinkingPrefix, messages[3 * k + 1].content)
        /\ \A r \in Runs :
               (r > 1 /\ Succeeded(r - 1) /\ Succeeded(r)) =>
                   prior[r] = Append(SubSeq(messages, 1, LastOwn(r - 1)),
                                     [type |-> "human", content |-> prompt[r]])
====
